---------------------------- MODULE Spec2Model ----------------------------
(***************************************************************************)
(* State-machine model of src/server.js: the POST /api/analyze-url handler *)
(* (URL normalisation, fetchWithRedirects, protocol fallback, the check    *)
(* registry with its robots.txt / ads.txt probes, and the scorer).         *)
(*                                                                         *)
(* Granularity: JavaScript runs every stretch of code between two awaits   *)
(* to completion, so one action is one such stretch: the continuation that *)
(* runs when an awaited promise settles, up to the next await.             *)
(*                                                                         *)
(* Strings are sequences of tokens ("http", "s", "://", "x", " "); the     *)
(* tokens start with different characters, so a prefix test on characters  *)
(* is a prefix test on tokens.  "x" stands for the characters of a host.   *)
(* The score is kept in half points (score = 2 * the JavaScript number),   *)
(* because a warn adds weight / 2 and several weights are odd.             *)
(***************************************************************************)
EXTENDS Integers, Sequences, FiniteSets, TLC

\* ------------------------------------------------------------------ bounds
MaxHops == 6        \* redirect answers the environment gives within one fetchWithRedirects call
MaxThrows == 1      \* check predicates that throw for a reason the model does not derive

\* --------------------------------------------------------- program constants
maxRedirects == 5
MinHtmlLength == 100

Reqs == {1, 2}      \* request slots; Spec starts one request, slot 2 stays "off"

\* ------------------------------------------------------------------ strings
Inputs ==
  { <<>>,                              \* "" (or url missing from the body)
    <<" ">>,                           \* " "
    <<"x", " ", "x">>,                 \* "x x"
    <<"x">>,                           \* "x.com"
    <<"http", "://", "x">>,            \* "http://x.com"
    <<"http", "s", "://", "x">>,       \* "https://x.com"
    <<"http", "x">>,                   \* "httpx.com"
    <<" ", "http", "://", "x">>,       \* " http://x.com"
    <<"123">> }                        \* 123: a JSON number, not a string

\* typeof url === 'string': the body is JSON, so url can be any JSON value.
IsString(url) == url # <<"123">>

HttpsPrefix == <<"http", "s", "://">>
HttpPrefix == <<"http", "://">>

StartsWith(s, p) ==
  /\ Len(s) >= Len(p)
  /\ SubSeq(s, 1, Len(p)) = p

RECURSIVE TrimStart(_)
TrimStart(s) ==
  IF s # <<>> /\ Head(s) = " " THEN TrimStart(Tail(s)) ELSE s

RECURSIVE TrimEnd(_)
TrimEnd(s) ==
  IF s # <<>> /\ s[Len(s)] = " " THEN TrimEnd(SubSeq(s, 1, Len(s) - 1)) ELSE s

Trim(s) == TrimEnd(TrimStart(s))

\* targetUrl.match(/^https?:\/\//)
MatchesScheme(s) == StartsWith(s, HttpPrefix) \/ StartsWith(s, HttpsPrefix)

\* targetUrl.replace('https://', 'http://'): the first occurrence only
RECURSIVE ReplaceHttps(_)
ReplaceHttps(s) ==
  IF s = <<>> THEN <<>>
  ELSE IF StartsWith(s, HttpsPrefix)
       THEN HttpPrefix \o SubSeq(s, Len(HttpsPrefix) + 1, Len(s))
       ELSE <<Head(s)>> \o ReplaceHttps(Tail(s))

\* The host of an absolute URL: the tokens after the scheme up to the path.
RECURSIVE HostOf(_)
HostOf(rest) ==
  IF rest = <<>> \/ Head(rest) = "://" THEN <<>>
  ELSE <<Head(rest)>> \o HostOf(Tail(rest))

NoUrl == [protocol |-> "none", host |-> <<>>]

\* new URL(s): the parsed URL, or NoUrl where the constructor throws.  The
\* parser strips leading and trailing spaces, needs a scheme, and rejects an
\* empty host and a host with a space in it.
ParseUrl(s) ==
  LET t == Trim(s)
      scheme == IF StartsWith(t, HttpsPrefix) THEN "https"
                ELSE IF StartsWith(t, HttpPrefix) THEN "http" ELSE "none"
      rest == IF scheme = "https" THEN SubSeq(t, 4, Len(t))
              ELSE IF scheme = "http" THEN SubSeq(t, 3, Len(t)) ELSE <<>>
      host == HostOf(rest)
  IN IF scheme = "none" \/ host = <<>> \/ (\E k \in 1..Len(host) : host[k] = " ")
     THEN NoUrl
     ELSE [protocol |-> scheme, host |-> host]

\* Mutant: the constructor accepts every string.
UrlThrows_Never(s) == FALSE

UrlThrows(s) == ParseUrl(s) = NoUrl

\* ----------------------------------------------------------------- document
\* What the predicates read of the parsed page.  A link is known by the
\* keywords its href and its text contain as substrings.
LinkHref(kind) ==
  CASE kind = "privacyHref" -> {"privacy", "policy", "privacy-policy"}
    [] kind = "terms" -> {"terms"}
    [] kind = "about" -> {"about"}
    [] kind = "contact" -> {"contact"}
    [] kind = "facebook" -> {"facebook.com"}
    [] kind = "twitter" -> {"twitter.com"}
    [] OTHER -> {}

LinkText(kind) ==
  CASE kind = "privacyHref" -> {"privacy", "policy"}
    [] kind = "privacyText" -> {"privacy", "policy"}
    [] kind = "terms" -> {"terms"}
    [] kind = "about" -> {"about"}
    [] kind = "contact" -> {"contact"}
    [] OTHER -> {}

Profiles == {"rich", "mid", "bare"}

Profile(q) ==
  CASE q = "rich" ->
         [titleLen |-> 60, metaDescLen |-> 160, navLinks |-> 5,
          links |-> <<"terms", "about", "contact", "facebook", "twitter">>,
          viewport |-> "device-width", responsiveCss |-> TRUE,
          words |-> 1501, mainRegion |-> TRUE, mainWords |-> 1001,
          h1s |-> 1, headings |-> 3, images |-> 5, imagesWithAlt |-> 4,
          lang |-> TRUE, favicon |-> TRUE, errorText |-> FALSE,
          analytics |-> TRUE, jsonLd |-> TRUE]
    [] q = "mid" ->
         [titleLen |-> 61, metaDescLen |-> 119, navLinks |-> 3,
          links |-> <<"home", "about", "facebook">>,
          viewport |-> "device-width", responsiveCss |-> FALSE,
          words |-> 801, mainRegion |-> TRUE, mainWords |-> 501,
          h1s |-> 2, headings |-> 2, images |-> 2, imagesWithAlt |-> 1,
          lang |-> FALSE, favicon |-> FALSE, errorText |-> FALSE,
          analytics |-> FALSE, jsonLd |-> FALSE]
    [] OTHER ->
         [titleLen |-> 9, metaDescLen |-> 0, navLinks |-> 2,
          links |-> <<"home">>,
          viewport |-> "none", responsiveCss |-> FALSE,
          words |-> 200, mainRegion |-> FALSE, mainWords |-> 0,
          h1s |-> 0, headings |-> 0, images |-> 3, imagesWithAlt |-> 1,
          lang |-> FALSE, favicon |-> FALSE, errorText |-> TRUE,
          analytics |-> FALSE, jsonLd |-> FALSE]

\* The documents analysed: a profile and the privacy links appended to its
\* links.
DocShapes ==
  { <<"rich", <<"privacyHref">>>>, <<"rich", <<"privacyText">>>>, <<"rich", <<>>>>,
    <<"mid", <<"privacyHref">>>>,
    <<"bare", <<"privacyText">>>>, <<"bare", <<>>>> }

Docs == {[Profile(shape[1]) EXCEPT !.links = @ \o shape[2]] : shape \in DocShapes}

NoDoc == [Profile("bare") EXCEPT !.links = <<>>, !.titleLen = 0, !.words = 0]

\* ----------------------------------------------------------- check registry
\* The checks in the order the handler declares them.  The two probes are
\* scored inline (lines 293-295, 505-507) with the weights given here.
Registry ==
  << [name |-> "Secure Connection (HTTPS/SSL)", weight |-> 20],
     [name |-> "HTTPS Redirect Check", weight |-> 15],
     [name |-> "SEO Title Tag", weight |-> 8],
     [name |-> "Meta Description", weight |-> 6],
     [name |-> "Robots.txt Configuration", weight |-> 12],
     [name |-> "Navigation Structure", weight |-> 10],
     [name |-> "Privacy Policy Page", weight |-> 25],
     [name |-> "Terms of Service/Use Page", weight |-> 8],
     [name |-> "About Us & Contact Information", weight |-> 12],
     [name |-> "Mobile Responsiveness", weight |-> 10],
     [name |-> "Content Volume", weight |-> 20],
     [name |-> "Heading Structure (SEO)", weight |-> 5],
     [name |-> "Image Optimization", weight |-> 4],
     [name |-> "Language Declaration", weight |-> 3],
     [name |-> "Favicon Present", weight |-> 2],
     [name |-> "Page Load Speed Indicator", weight |-> 3],
     [name |-> "Error Page Detection", weight |-> 5],
     [name |-> "Social Media Integration", weight |-> 3],
     [name |-> "Google Analytics Installed", weight |-> 7],
     [name |-> "Ads.txt Presence", weight |-> 10],
     [name |-> "Structured Data (Schema.org)", weight |-> 6],
     [name |-> "Main Content Volume", weight |-> 15] >>

RobotsIndex == 5
AdsIndex == 20

ManualNames ==
  << "Content Originality & Quality",
     "Content Policy Compliance",
     "User Experience & Site Design" >>

\* The words of a check name, for String.prototype.includes (case-sensitive).
NameWords(name) ==
  CASE name = "Secure Connection (HTTPS/SSL)" -> <<"Secure", "Connection", "(", "HTTPS", "/", "SSL", ")">>
    [] name = "HTTPS Redirect Check" -> <<"HTTPS", "Redirect", "Check">>
    [] name = "Robots.txt Configuration" -> <<"Robots.txt", "Configuration">>
    [] name = "Privacy Policy Page" -> <<"Privacy", "Policy", "Page">>
    [] name = "Content Volume" -> <<"Content", "Volume">>
    [] name = "Main Content Volume" -> <<"Main", "Content", "Volume">>
    [] name = "Content Originality & Quality" -> <<"Content", "Originality", "&", "Quality">>
    [] name = "Content Policy Compliance" -> <<"Content", "Policy", "Compliance">>
    [] OTHER -> <<name>>

\* Mutant: name.startsWith(pattern) in place of name.includes(pattern).
Includes_AtStart(words, pattern) == StartsWith(words, pattern)

\* name.includes(pattern), on words
Includes(words, pattern) ==
  \E k \in 0..(Len(words) - Len(pattern)) :
    SubSeq(words, k + 1, k + Len(pattern)) = pattern

Result(status, message) == [status |-> status, message |-> message]

\* findLink(keywords): the first anchor whose href or text includes a keyword
\* (0 when Array.prototype.find returns undefined).
findLink(links, keywords) ==
  LET hits == {k \in 1..Len(links) :
                 (LinkHref(links[k]) \cup LinkText(links[k])) \cap keywords # {}}
  IN IF hits = {} THEN 0 ELSE CHOOSE k \in hits : \A j \in hits : k <= j

\* The predicate handed to runCheck under each name (lines 198-533); a
\* result of status "throw" stands for the predicate throwing.
Predicate(name, d, initial, final, ms) ==
  CASE name = "Secure Connection (HTTPS/SSL)" ->
         IF final.protocol = "https"
         THEN Result("pass", "Site uses HTTPS encryption")
         ELSE Result("fail", "Site does not use HTTPS")
    [] name = "HTTPS Redirect Check" ->
         LET arg == IF StartsWith(initial, <<"http">>) THEN initial ELSE HttpsPrefix \o initial
             from == ParseUrl(arg)
         IN IF UrlThrows(arg) THEN Result("throw", "Invalid URL")
            ELSE IF from.protocol = "http" /\ final.protocol = "https" /\ from.host = final.host
            THEN Result("pass", "HTTP correctly redirects to HTTPS")
            ELSE IF final.protocol = "https" THEN Result("pass", "Site uses HTTPS")
            ELSE Result("fail", "No HTTP to HTTPS redirect configured")
    [] name = "SEO Title Tag" ->
         IF d.titleLen = 0 THEN Result("fail", "Missing title tag")
         ELSE IF d.titleLen < 10 THEN Result("fail", "Title too short")
         ELSE IF d.titleLen > 60 THEN Result("warn", "Title too long")
         ELSE Result("pass", "Good title length")
    [] name = "Meta Description" ->
         IF d.metaDescLen = 0 THEN Result("fail", "Missing meta description")
         ELSE IF d.metaDescLen < 120 THEN Result("warn", "Meta description short")
         ELSE IF d.metaDescLen > 160 THEN Result("warn", "Meta description long")
         ELSE Result("pass", "Good meta description length")
    [] name = "Navigation Structure" ->
         IF d.navLinks >= 5 THEN Result("pass", "Clear navigation")
         ELSE IF d.navLinks >= 3 THEN Result("warn", "Navigation found")
         ELSE Result("fail", "Insufficient navigation structure")
    [] name = "Privacy Policy Page" ->
         LET k == findLink(d.links, {"privacy", "policy", "privacy-policy"})
         IN IF k # 0 /\ LinkHref(d.links[k]) \cap {"privacy", "policy"} # {}
            THEN Result("pass", "Privacy Policy link found")
            ELSE Result("fail", "Privacy Policy page missing")
    [] name = "Terms of Service/Use Page" ->
         IF findLink(d.links, {"terms", "service", "use", "tos", "terms-of-service"}) # 0
         THEN Result("pass", "Terms of Service page found")
         ELSE Result("warn", "Terms of Service page recommended")
    [] name = "About Us & Contact Information" ->
         LET hasAbout == findLink(d.links, {"about", "about-us"}) # 0
             hasContact == findLink(d.links, {"contact", "contact-us"}) # 0
         IN IF hasAbout /\ hasContact THEN Result("pass", "Both About and Contact pages found")
            ELSE IF hasAbout THEN Result("warn", "Missing Contact page")
            ELSE IF hasContact THEN Result("warn", "Missing About page")
            ELSE Result("fail", "Both About and Contact pages missing")
    [] name = "Mobile Responsiveness" ->
         IF d.viewport = "device-width"
         THEN IF d.responsiveCss THEN Result("pass", "Mobile-optimized")
              ELSE Result("warn", "Viewport tag found but responsive CSS unclear")
         ELSE Result("fail", "Missing viewport meta tag")
    [] name = "Content Volume" ->
         IF d.words > 1500 THEN Result("pass", "Good content volume")
         ELSE IF d.words > 800 THEN Result("warn", "Moderate content")
         ELSE IF d.words > 300 THEN Result("fail", "Low content volume")
         ELSE Result("fail", "Insufficient content")
    [] name = "Heading Structure (SEO)" ->
         IF d.h1s = 1 /\ d.headings >= 3 THEN Result("pass", "Good heading structure")
         ELSE IF d.h1s = 1 THEN Result("warn", "H1 found but consider adding more subheadings")
         ELSE IF d.h1s > 1 THEN Result("warn", "Multiple H1 tags found")
         ELSE Result("fail", "No H1 heading found")
    [] name = "Image Optimization" ->
         IF d.images = 0 THEN Result("warn", "No images found")
         ELSE IF d.imagesWithAlt * 100 >= 80 * d.images THEN Result("pass", "Good image accessibility")
         ELSE IF d.imagesWithAlt * 100 >= 50 * d.images THEN Result("warn", "Some images missing alt text")
         ELSE Result("fail", "Poor image accessibility")
    [] name = "Language Declaration" ->
         IF d.lang THEN Result("pass", "Language declared")
         ELSE Result("warn", "No language declaration")
    [] name = "Favicon Present" ->
         IF d.favicon THEN Result("pass", "Favicon found")
         ELSE Result("warn", "Favicon missing")
    [] name = "Page Load Speed Indicator" ->
         IF ms < 3000 THEN Result("pass", "Good response time")
         ELSE IF ms < 5000 THEN Result("warn", "Moderate response time")
         ELSE Result("fail", "Slow response time")
    [] name = "Error Page Detection" ->
         IF d.errorText THEN Result("fail", "Potential error page")
         ELSE Result("pass", "No obvious error indicators found")
    [] name = "Social Media Integration" ->
         LET n == Cardinality({k \in 1..Len(d.links) :
                    LinkHref(d.links[k]) \cap {"facebook.com", "twitter.com", "instagram.com",
                                               "linkedin.com", "youtube.com"} # {}})
         IN IF n >= 2 THEN Result("pass", "Social media links found")
            ELSE IF n = 1 THEN Result("warn", "Limited social media presence")
            ELSE Result("warn", "No social media links found")
    [] name = "Google Analytics Installed" ->
         IF d.analytics THEN Result("pass", "Google Analytics script detected")
         ELSE Result("warn", "Google Analytics script not found")
    [] name = "Structured Data (Schema.org)" ->
         IF d.jsonLd THEN Result("pass", "Structured data (JSON-LD) found")
         ELSE Result("warn", "No structured data (JSON-LD) found")
    [] name = "Main Content Volume" ->
         LET n == IF d.mainRegion THEN d.mainWords ELSE d.words
         IN IF n > 1000 THEN Result("pass", "Excellent main content volume")
            ELSE IF n > 500 THEN Result("warn", "Sufficient main content")
            ELSE Result("fail", "Low main content volume")

\* Predicates that call a method on a value they did not test (link.href,
\* viewport.content, doc.body): these can throw a TypeError.  The throw of
\* the HTTPS Redirect Check (new URL) is derived in Predicate.
Throwable ==
  { "Privacy Policy Page", "Mobile Responsiveness", "Content Volume",
    "Error Page Detection", "Social Media Integration", "Main Content Volume" }

\* The running state of one analysis: the check list and the score (in half
\* points).
NoRun == [checks |-> <<>>, score |-> 0]

Entry(name, weight, result) ==
  [name |-> name, weight |-> weight, status |-> result.status, message |-> result.message]

\* Mutant: a warn adds more than a pass does.
Push_WarnOverpays(run, name, weight, result) ==
  [checks |-> Append(run.checks, Entry(name, weight, result)),
   score |-> run.score + (IF result.status = "pass" THEN 2 * weight
                          ELSE IF result.status = "warn" THEN 3 * weight ELSE 0)]

\* A check result is pushed and its share of the weight is added to the
\* score (lines 176-178, 293-295, 505-507).
Push(run, name, weight, result) ==
  [checks |-> Append(run.checks, Entry(name, weight, result)),
   score |-> run.score + (IF result.status = "pass" THEN 2 * weight
                          ELSE IF result.status = "warn" THEN weight ELSE 0)]

\* `Check failed: ${error.message}`
CheckFailed(errorMessage) ==
  IF errorMessage = "Invalid URL" THEN "Check failed: Invalid URL"
  ELSE "Check failed: TypeError"

\* Mutant: the catch block records nothing.
runCheck_Dropping(run, name, weight, result) ==
  IF result.status = "throw" THEN run ELSE Push(run, name, weight, result)

\* runCheck(name, category, weight, checkFn), lines 173-188
runCheck(run, name, weight, result) ==
  IF result.status = "throw"
  THEN [run EXCEPT !.checks =
          Append(@, Entry(name, weight, Result("fail", CheckFailed(result.message))))]
  ELSE Push(run, name, weight, result)

\* The runCheck calls for the registry entries from..to, in order; the
\* predicates named in `throwing` throw.
RECURSIVE RunChecks(_, _, _, _, _, _, _, _)
RunChecks(run, from, to, throwing, d, initial, final, ms) ==
  IF from > to THEN run
  ELSE LET c == Registry[from]
           result == IF c.name \in throwing THEN Result("throw", "TypeError")
                     ELSE Predicate(c.name, d, initial, final, ms)
       IN RunChecks(runCheck(run, c.name, c.weight, result), from + 1, to, throwing,
                    d, initial, final, ms)

\* The three manual entries, pushed without a weight (lines 536-555).
RECURSIVE PushManual(_, _)
PushManual(checks, k) ==
  IF k > Len(ManualNames) THEN checks
  ELSE PushManual(Append(checks, [name |-> ManualNames[k], weight |-> 0,
                                  status |-> "manual", message |-> "manual review"]),
                  k + 1)

\* ------------------------------------------------------------------- scorer
RECURSIVE SumWeights(_)
SumWeights(list) ==
  IF list = <<>> THEN 0 ELSE Head(list).weight + SumWeights(Tail(list))

IsAutomated(c) == c.status # "manual"
IsFail(c) == c.status = "fail"

CriticalPatterns ==
  { <<"Privacy", "Policy">>, <<"HTTPS">>, <<"Content", "Volume">>, <<"robots.txt">> }

\* The filter of lines 566-572
IsCritical(c) ==
  /\ c.status = "fail"
  /\ \E pattern \in CriticalPatterns : Includes(NameWords(c.name), pattern)

\* Math.round((score / totalPossibleWeight) * 100) for a score in half points
RoundPercent(halfPoints, total) == (100 * halfPoints + total) \div (2 * total)

Max(a, b) == IF a >= b THEN a ELSE b
Min(a, b) == IF a <= b THEN a ELSE b

\* Mutant: the cap is left out.
Cap_Skipped(value, criticalChecks) == value

\* Lines 588-591: the cap at 65 when a critical failure exists
Cap(value, criticalChecks) == IF criticalChecks > 0 THEN Min(value, 65) ELSE value

\* Lines 557-594: the percentage, the two penalties, the cap.
ScoreReport(list, halfPoints) ==
  LET totalPossibleWeight == SumWeights(SelectSeq(list, IsAutomated))
      percent == IF totalPossibleWeight > 0 THEN RoundPercent(halfPoints, totalPossibleWeight)
                 ELSE 0
      criticalChecks == Len(SelectSeq(list, IsCritical))
      criticalPenalty == criticalChecks * 15
      afterCritical == IF criticalChecks > 0 THEN Max(0, percent - criticalPenalty) ELSE percent
      failedChecks == Len(SelectSeq(list, IsFail))
      volumePenalty == (failedChecks - 5) * 3
      afterVolume == IF failedChecks > 5 THEN Max(0, afterCritical - volumePenalty)
                     ELSE afterCritical
      capped == Cap(afterVolume, criticalChecks)
  IN [totalPossibleWeight |-> totalPossibleWeight,
      rawScore |-> halfPoints,
      percent |-> percent,
      criticalChecks |-> criticalChecks,
      failedChecks |-> failedChecks,
      finalScore |-> Min(capped, 100),
      penalties |->
        (IF criticalChecks > 0
         THEN <<[note |-> "Critical issues detected", amount |-> criticalPenalty]>>
         ELSE <<>>)
        \o (IF failedChecks > 5
            THEN <<[note |-> "Multiple failures", amount |-> volumePenalty]>>
            ELSE <<>>)]

\* -------------------------------------------------------------------- state
VARIABLES
  pc,                \* where each request's handler is suspended
  initialUrl,        \* req.body.url
  targetUrl,         \* the normalised URL handed to fetchWithRedirects
  retrievals,        \* the calls of fetchWithRedirects made so far, with their result
  fw,                \* the frame of the running fetchWithRedirects call
  timers,            \* the setTimeout timers that are armed
  htmlResponse,      \* the response fetchWithRedirects returned
  responseTime,      \* ms between the start and the return of the first retrieval
  finalResolvedUrl,
  doc,               \* the parsed document
  checks,            \* the check list
  score,             \* the accumulated score, in half points
  sent               \* the responses written to res, in order

vars == <<pc, initialUrl, targetUrl, retrievals, fw, timers, htmlResponse,
          responseTime, finalResolvedUrl, doc, checks, score, sent>>

analysis == <<doc, checks, score>>

IdleFrame ==
  [phase |-> "idle", finalUrl |-> NoUrl, followUrl |-> NoUrl, i |-> 0,
   requests |-> 0, answers |-> <<>>, error |-> "none"]

NoResponse == [ok |-> FALSE, url |-> NoUrl, contentType |-> "none"]

Schemes == {"http", "https"}
ContentTypes == {"html", "other"}     \* content-type includes 'text/html', or not
ResponseTimes == {2999, 3000, 5000}   \* around the thresholds of the speed check
BodyLengths == {0, 99, 100}           \* html.length

PageTimer(r) == [kind |-> "page", call |-> Len(retrievals[r]), i |-> fw[r].i]

Redirects(answers) == Cardinality({k \in 1..Len(answers) : answers[k] = "redirect"})

Reply(status, error) == [status |-> status, body |-> [error |-> error]]

Init ==
  /\ pc = [r \in Reqs |-> IF r = 1 THEN "start" ELSE "off"]
  /\ initialUrl \in [Reqs -> Inputs]
  /\ \A r \in Reqs : pc[r] = "off" => initialUrl[r] = <<>>
  /\ targetUrl = [r \in Reqs |-> <<>>]
  /\ retrievals = [r \in Reqs |-> <<>>]
  /\ fw = [r \in Reqs |-> IdleFrame]
  /\ timers = [r \in Reqs |-> {}]
  /\ htmlResponse = [r \in Reqs |-> NoResponse]
  /\ responseTime = [r \in Reqs |-> 0]
  /\ finalResolvedUrl = [r \in Reqs |-> NoUrl]
  /\ doc = [r \in Reqs |-> NoDoc]
  /\ checks = [r \in Reqs |-> <<>>]
  /\ score = [r \in Reqs |-> 0]
  /\ sent = [r \in Reqs |-> <<>>]

\* res.status(..).json(..) followed by return: the handler is over.
Respond(r, reply) ==
  /\ sent' = [sent EXCEPT ![r] = Append(@, reply)]
  /\ pc' = [pc EXCEPT ![r] = "done"]

\* fetchWithRedirects(url) up to its first await: the frame is set up and the
\* first attempt of the loop is issued under a fresh timer.
BeginFetch(r, url, calls) ==
  LET u == ParseUrl(url)
      frame == [IdleFrame EXCEPT !.finalUrl = u, !.followUrl = u, !.requests = 1]
  IN /\ retrievals' = [retrievals EXCEPT ![r] =
                         Append(calls, [scheme |-> u.protocol, result |-> "pending"])]
     /\ IF 0 < maxRedirects
        THEN /\ fw' = [fw EXCEPT ![r] = [frame EXCEPT !.phase = "loop"]]
             /\ timers' = [timers EXCEPT ![r] =
                             @ \cup {[kind |-> "page", call |-> Len(calls) + 1, i |-> 0]}]
             /\ pc' = [pc EXCEPT ![r] = "awaitLoopFetch"]
        ELSE /\ fw' = [fw EXCEPT ![r] = [frame EXCEPT !.phase = "final"]]
             /\ timers' = timers
             /\ pc' = [pc EXCEPT ![r] = "awaitFinalFetch"]

\* The handler from its entry to the first await.
Receive(r) ==
  /\ UNCHANGED analysis
  /\ pc[r] = "start"
  /\ LET trimmed == Trim(initialUrl[r])
         target == IF MatchesScheme(trimmed) THEN trimmed ELSE HttpsPrefix \o trimmed
     IN IF initialUrl[r] = <<>>
        THEN /\ Respond(r, Reply(400, "URL is required"))
             /\ UNCHANGED <<targetUrl, retrievals, fw, timers>>
        ELSE IF ~IsString(initialUrl[r])
        \* initialUrl.trim is not a function: the TypeError is thrown outside
        \* every try block and ends the invocation with nothing written to res
        THEN /\ pc' = [pc EXCEPT ![r] = "threw"]
             /\ UNCHANGED <<targetUrl, retrievals, fw, timers, sent>>
        ELSE IF UrlThrows(target)
        THEN /\ Respond(r, Reply(400, "Invalid URL format"))
             /\ targetUrl' = [targetUrl EXCEPT ![r] = target]
             /\ UNCHANGED <<retrievals, fw, timers>>
        ELSE /\ targetUrl' = [targetUrl EXCEPT ![r] = target]
             /\ BeginFetch(r, target, retrievals[r])
             /\ UNCHANGED sent
  /\ UNCHANGED <<initialUrl, htmlResponse, responseTime, finalResolvedUrl>>

\* The final `return fetch(finalUrl, defaultOptions)`: no signal, no timer.
IssueFinalFetch(r, frame) ==
  /\ fw' = [fw EXCEPT ![r] =
              [frame EXCEPT !.phase = "final", !.requests = @ + 1,
                            !.followUrl = frame.finalUrl]]
  /\ pc' = [pc EXCEPT ![r] = "awaitFinalFetch"]

\* An attempt of the redirect loop is answered: lines 63-71, then either the
\* next attempt (lines 52-57) or the final fetch (line 81).
LoopResponse(r) ==
  /\ UNCHANGED analysis
  /\ pc[r] = "awaitLoopFetch"
  /\ \E kind \in {"redirect", "ok", "notok"}, scheme \in Schemes :
       LET cleared == timers[r] \ {PageTimer(r)}
           seen == [fw[r] EXCEPT !.answers = Append(@, kind)]
           \* new URL(location, finalUrl).href; the location stays on the host
           moved == [seen EXCEPT !.finalUrl = [@ EXCEPT !.protocol = scheme], !.i = @ + 1]
       IN IF kind = "redirect"
          THEN /\ Redirects(fw[r].answers) < MaxHops
               /\ IF moved.i < maxRedirects
                  THEN /\ fw' = [fw EXCEPT ![r] = [moved EXCEPT !.requests = @ + 1]]
                       /\ timers' = [timers EXCEPT ![r] =
                             cleared \cup {[kind |-> "page", call |-> Len(retrievals[r]),
                                            i |-> moved.i]}]
                       /\ pc' = pc
                  ELSE /\ IssueFinalFetch(r, moved)
                       /\ timers' = [timers EXCEPT ![r] = cleared]
          ELSE /\ scheme = "http"
               /\ IssueFinalFetch(r, seen)
               /\ timers' = [timers EXCEPT ![r] = cleared]
  /\ UNCHANGED <<initialUrl, targetUrl, retrievals, htmlResponse, responseTime,
                 finalResolvedUrl, sent>>

\* fetch rejects inside the loop with a network error: the catch block logs
\* and rethrows (lines 72-78); the timer of the attempt is not cleared.
LoopNetworkError(r) ==
  /\ UNCHANGED analysis
  /\ pc[r] = "awaitLoopFetch"
  /\ fw' = [fw EXCEPT ![r] = [@ EXCEPT !.phase = "threw", !.error = "network",
                                      !.answers = Append(@, "network")]]
  /\ pc' = [pc EXCEPT ![r] = "fetchSettled"]
  /\ UNCHANGED <<initialUrl, targetUrl, retrievals, timers, htmlResponse, responseTime,
                 finalResolvedUrl, sent>>

\* The 30 s timer of the pending attempt fires: controller.abort() rejects
\* the fetch with an AbortError, which the catch block turns into the
\* request-timeout error.
LoopTimeout(r) ==
  /\ UNCHANGED analysis
  /\ pc[r] = "awaitLoopFetch"
  /\ PageTimer(r) \in timers[r]
  /\ timers' = [timers EXCEPT ![r] = @ \ {PageTimer(r)}]
  /\ fw' = [fw EXCEPT ![r] = [@ EXCEPT !.phase = "threw", !.error = "timeout",
                                      !.answers = Append(@, "timeout")]]
  /\ pc' = [pc EXCEPT ![r] = "fetchSettled"]
  /\ UNCHANGED <<initialUrl, targetUrl, retrievals, htmlResponse, responseTime,
                 finalResolvedUrl, sent>>

\* The final fetch is answered.  It runs with node-fetch's default
\* redirect: 'follow', so a redirect answer is followed inside the call.
FinalResponse(r) ==
  /\ UNCHANGED analysis
  /\ pc[r] = "awaitFinalFetch"
  /\ \E kind \in {"redirect", "ok", "notok"}, scheme \in Schemes, ct \in ContentTypes :
       LET seen == [fw[r] EXCEPT !.answers = Append(@, kind)]
       IN IF kind = "redirect"
          THEN /\ Redirects(fw[r].answers) < MaxHops
               /\ ct = "html"
               /\ fw' = [fw EXCEPT ![r] =
                     [seen EXCEPT !.requests = @ + 1,
                                  !.followUrl = [@ EXCEPT !.protocol = scheme]]]
               /\ UNCHANGED <<pc, htmlResponse>>
          ELSE /\ scheme = "http"
               \* the content type of a non-success response is never read
               /\ kind = "notok" => ct = "other"
               /\ fw' = [fw EXCEPT ![r] = [seen EXCEPT !.phase = "returned"]]
               /\ htmlResponse' = [htmlResponse EXCEPT ![r] =
                     [ok |-> kind = "ok", url |-> fw[r].followUrl, contentType |-> ct]]
               /\ pc' = [pc EXCEPT ![r] = "fetchSettled"]
  /\ UNCHANGED <<initialUrl, targetUrl, retrievals, timers, responseTime,
                 finalResolvedUrl, sent>>

\* The final fetch rejects: the rejection leaves fetchWithRedirects as it is.
FinalNetworkError(r) ==
  /\ UNCHANGED analysis
  /\ pc[r] = "awaitFinalFetch"
  /\ fw' = [fw EXCEPT ![r] = [@ EXCEPT !.phase = "threw", !.error = "network",
                                      !.answers = Append(@, "network")]]
  /\ pc' = [pc EXCEPT ![r] = "fetchSettled"]
  /\ UNCHANGED <<initialUrl, targetUrl, retrievals, timers, htmlResponse, responseTime,
                 finalResolvedUrl, sent>>

\* A timer whose attempt is already over fires: abort() on a settled fetch
\* does nothing.
StaleTimerFires(r) ==
  /\ UNCHANGED analysis
  /\ \E t \in timers[r] :
       /\ ~(pc[r] = "awaitLoopFetch" /\ t = PageTimer(r))
       /\ ~(pc[r] = "awaitRobotsFetch" /\ t.kind = "robots")
       /\ ~(pc[r] = "awaitAdsFetch" /\ t.kind = "ads")
       /\ timers' = [timers EXCEPT ![r] = @ \ {t}]
  /\ UNCHANGED <<pc, initialUrl, targetUrl, retrievals, fw, htmlResponse, responseTime,
                 finalResolvedUrl, sent>>

SetResult(calls, result) == [calls EXCEPT ![Len(calls)].result = result]

\* The handler resumes after `await fetchWithRedirects(targetUrl)`:
\* lines 121-149.
RetrievalSettled(r) ==
  /\ UNCHANGED analysis
  /\ pc[r] = "fetchSettled"
  /\ LET first == Len(retrievals[r]) = 1
         resp == htmlResponse[r]
     IN \E ms \in ResponseTimes :
          /\ responseTime' = [responseTime EXCEPT ![r] =
                                IF first /\ fw[r].phase = "returned" THEN ms ELSE @]
          /\ (first /\ fw[r].phase = "returned") \/ ms = 2999
          /\ IF fw[r].phase = "threw"
             THEN /\ Respond(r, Reply(500, "Failed to access website"))
                  /\ retrievals' = [retrievals EXCEPT ![r] = SetResult(@, "threw")]
                  /\ fw' = [fw EXCEPT ![r] = IdleFrame]
                  /\ UNCHANGED <<targetUrl, timers, finalResolvedUrl>>
             ELSE IF ~resp.ok /\ first /\ StartsWith(targetUrl[r], HttpsPrefix)
             THEN /\ targetUrl' = [targetUrl EXCEPT ![r] = ReplaceHttps(@)]
                  /\ BeginFetch(r, ReplaceHttps(targetUrl[r]), SetResult(retrievals[r], "notok"))
                  /\ UNCHANGED <<finalResolvedUrl, sent>>
             ELSE IF ~resp.ok
             THEN /\ Respond(r, Reply(500, "Failed to access website"))
                  /\ retrievals' = [retrievals EXCEPT ![r] = SetResult(@, "notok")]
                  /\ fw' = [fw EXCEPT ![r] = IdleFrame]
                  /\ UNCHANGED <<targetUrl, timers, finalResolvedUrl>>
             ELSE /\ retrievals' = [retrievals EXCEPT ![r] = SetResult(@, "ok")]
                  /\ fw' = [fw EXCEPT ![r] = IdleFrame]
                  /\ finalResolvedUrl' = [finalResolvedUrl EXCEPT ![r] = resp.url]
                  /\ IF resp.contentType # "html"
                     THEN Respond(r, Reply(400, "Not an HTML webpage"))
                     ELSE /\ pc' = [pc EXCEPT ![r] = "awaitHtmlText"]
                          /\ sent' = sent
                  /\ UNCHANGED <<targetUrl, timers>>
  /\ UNCHANGED <<initialUrl, htmlResponse>>

\* ------------------------------------------------------- analysis (handler)
\* Mutant: checks, score and doc are declared once, at module level.
Slot_Shared(r) == 1

\* `let checks`, `let score`, `let doc` are declared inside the handler
\* (lines 111-113): every invocation has bindings of its own, and the
\* closures runCheck and findLink of an invocation refer to these.
Slot(r) == r

ProbeTimer(kind) == [kind |-> kind, call |-> 0, i |-> 0]

\* Thrown TypeErrors recorded so far
Spurious(list) ==
  Cardinality({k \in 1..Len(list) : list[k].message = CheckFailed("TypeError")})

Names(from, to) == {Registry[k].name : k \in from..to}

\* The sets of predicates that may throw in the registry entries from..to
ThrowSets(list, from, to) ==
  {T \in SUBSET (Throwable \cap Names(from, to)) :
     Cardinality(T) + Spurious(list) <= MaxThrows}

\* `await htmlResponse.text()` resolves: lines 153-166, the checks of lines
\* 198-246 and the robots.txt probe up to its fetch (lines 250-258).
BodyArrives(r) ==
  /\ pc[r] = "awaitHtmlText"
  /\ \E len \in BodyLengths, parses \in BOOLEAN, d \in Docs :
       IF len < MinHtmlLength
       THEN /\ Respond(r, Reply(400, "Empty or minimal content"))
            /\ UNCHANGED <<timers, analysis>>
       ELSE IF ~parses
       THEN /\ Respond(r, Reply(500, "Failed to parse website HTML"))
            /\ UNCHANGED <<timers, analysis>>
       ELSE LET run == RunChecks([checks |-> checks[Slot(r)], score |-> score[Slot(r)]],
                                 1, RobotsIndex - 1,
                                 {}, d, initialUrl[r], finalResolvedUrl[r], responseTime[r])
            IN /\ doc' = [doc EXCEPT ![Slot(r)] = d]
               /\ checks' = [checks EXCEPT ![Slot(r)] = run.checks]
               /\ score' = [score EXCEPT ![Slot(r)] = run.score]
               /\ timers' = [timers EXCEPT ![r] = @ \cup {ProbeTimer("robots")}]
               /\ pc' = [pc EXCEPT ![r] = "awaitRobotsFetch"]
               /\ sent' = sent
  /\ UNCHANGED <<initialUrl, targetUrl, retrievals, fw, htmlResponse, responseTime,
                 finalResolvedUrl>>

\* `await htmlResponse.text()` rejects: the outer catch (lines 631-637).
BodyFails(r) ==
  /\ pc[r] = "awaitHtmlText"
  /\ Respond(r, Reply(500, "Analysis failed"))
  /\ UNCHANGED <<initialUrl, targetUrl, retrievals, fw, timers, htmlResponse, responseTime,
                 finalResolvedUrl, analysis>>

\* Lines 293-295: the robots.txt result is pushed and scored.
PushRobots(run, result) ==
  [checks |-> Append(run.checks, Entry(Registry[RobotsIndex].name, 12, result)),
   score |-> run.score + (IF result.status = "pass" THEN 2 * 12
                          ELSE IF result.status = "warn" THEN 2 * 6 ELSE 0)]

\* Mutant: a warn of the ads.txt probe adds the full weight.
PushAds_FullWarn(run, result) ==
  [checks |-> Append(run.checks, Entry(Registry[AdsIndex].name, 10, result)),
   score |-> run.score + (IF result.status \in {"pass", "warn"} THEN 2 * 10 ELSE 0)]

\* Lines 505-507: the ads.txt result is pushed and scored.
PushAds(run, result) ==
  [checks |-> Append(run.checks, Entry(Registry[AdsIndex].name, 10, result)),
   score |-> run.score + (IF result.status = "pass" THEN 2 * 10
                          ELSE IF result.status = "warn" THEN 2 * 5 ELSE 0)]

\* The robots.txt probe has produced its result: lines 293-473 and the
\* ads.txt probe up to its fetch (lines 477-485).
AfterRobots(r, result, armed) ==
  /\ \E throwing \in ThrowSets(checks[Slot(r)], RobotsIndex + 1, AdsIndex - 1) :
       LET run == RunChecks(PushRobots([checks |-> checks[Slot(r)], score |-> score[Slot(r)]],
                                       result),
                            RobotsIndex + 1, AdsIndex - 1, throwing,
                            doc[Slot(r)], initialUrl[r], finalResolvedUrl[r], responseTime[r])
       IN /\ checks' = [checks EXCEPT ![Slot(r)] = run.checks]
          /\ score' = [score EXCEPT ![Slot(r)] = run.score]
  /\ timers' = [timers EXCEPT ![r] = armed \cup {ProbeTimer("ads")}]
  /\ pc' = [pc EXCEPT ![r] = "awaitAdsFetch"]
  /\ UNCHANGED <<initialUrl, targetUrl, retrievals, fw, htmlResponse, responseTime,
                 finalResolvedUrl, doc, sent>>

\* The ads.txt probe has produced its result: lines 505-629.
AfterAds(r, result, armed) ==
  /\ \E throwing \in ThrowSets(checks[Slot(r)], AdsIndex + 1, Len(Registry)) :
       LET run == RunChecks(PushAds([checks |-> checks[Slot(r)], score |-> score[Slot(r)]],
                                    result),
                            AdsIndex + 1, Len(Registry), throwing,
                            doc[Slot(r)], initialUrl[r], finalResolvedUrl[r], responseTime[r])
           list == PushManual(run.checks, 1)
           report == ScoreReport(list, run.score)
       IN /\ checks' = [checks EXCEPT ![Slot(r)] = list]
          /\ score' = [score EXCEPT ![Slot(r)] = run.score]
          /\ Respond(r, [status |-> 200,
                         body |-> [score |-> report.finalScore, checks |-> list,
                                   finalResolvedUrl |-> finalResolvedUrl[r],
                                   penalties |-> report.penalties]])
  /\ timers' = [timers EXCEPT ![r] = armed]
  /\ UNCHANGED <<initialUrl, targetUrl, retrievals, fw, htmlResponse, responseTime,
                 finalResolvedUrl, doc>>

\* robots.txt answers: the timer is cleared; a non-success status is a warn.
RobotsResponse(r) ==
  /\ pc[r] = "awaitRobotsFetch"
  /\ \E ok \in BOOLEAN :
       IF ok
       THEN /\ timers' = [timers EXCEPT ![r] = @ \ {ProbeTimer("robots")}]
            /\ pc' = [pc EXCEPT ![r] = "awaitRobotsText"]
            /\ UNCHANGED <<initialUrl, targetUrl, retrievals, fw, htmlResponse, responseTime,
                           finalResolvedUrl, analysis, sent>>
       ELSE AfterRobots(r, Result("warn", "robots.txt not found"),
                        timers[r] \ {ProbeTimer("robots")})

\* The robots.txt fetch rejects: the catch returns a warn, the timer stays.
RobotsNetworkError(r) ==
  /\ pc[r] = "awaitRobotsFetch"
  /\ AfterRobots(r, Result("warn", "Could not analyze robots.txt"), timers[r])

\* The 8 s timer fires while the robots.txt fetch is pending.
RobotsTimeout(r) ==
  /\ pc[r] = "awaitRobotsFetch"
  /\ ProbeTimer("robots") \in timers[r]
  /\ AfterRobots(r, Result("warn", "Could not analyze robots.txt"),
                 timers[r] \ {ProbeTimer("robots")})

RobotsTexts == SUBSET {"disallow-all", "sitemap"}

\* `await robotsRes.text()` resolves: lines 268-287.
RobotsText(r) ==
  /\ pc[r] = "awaitRobotsText"
  /\ \E text \in RobotsTexts :
       AfterRobots(r,
                   IF "disallow-all" \in text
                   THEN Result("fail", "robots.txt blocks search engine crawlers")
                   ELSE IF "sitemap" \in text
                   THEN Result("pass", "robots.txt configured correctly with sitemap reference")
                   ELSE Result("pass", "robots.txt allows crawling"),
                   timers[r])

\* `await robotsRes.text()` rejects.
RobotsTextError(r) ==
  /\ pc[r] = "awaitRobotsText"
  /\ AfterRobots(r, Result("warn", "Could not analyze robots.txt"), timers[r])

AdsResponse(r) ==
  /\ pc[r] = "awaitAdsFetch"
  /\ \E ok \in BOOLEAN :
       IF ok
       THEN /\ timers' = [timers EXCEPT ![r] = @ \ {ProbeTimer("ads")}]
            /\ pc' = [pc EXCEPT ![r] = "awaitAdsText"]
            /\ UNCHANGED <<initialUrl, targetUrl, retrievals, fw, htmlResponse, responseTime,
                           finalResolvedUrl, analysis, sent>>
       ELSE AfterAds(r, Result("warn", "ads.txt file not found"),
                     timers[r] \ {ProbeTimer("ads")})

AdsNetworkError(r) ==
  /\ pc[r] = "awaitAdsFetch"
  /\ AfterAds(r, Result("warn", "Could not analyze ads.txt"), timers[r])

AdsTimeout(r) ==
  /\ pc[r] = "awaitAdsFetch"
  /\ ProbeTimer("ads") \in timers[r]
  /\ AfterAds(r, Result("warn", "Could not analyze ads.txt"),
              timers[r] \ {ProbeTimer("ads")})

\* `await adsTxtRes.text()` resolves: lines 495-499.
AdsText(r) ==
  /\ pc[r] = "awaitAdsText"
  /\ \E publisherId \in BOOLEAN :
       AfterAds(r,
                IF publisherId
                THEN Result("pass", "ads.txt file found with a Google publisher ID")
                ELSE Result("warn", "ads.txt file found without a Google publisher ID"),
                timers[r])

AdsTextError(r) ==
  /\ pc[r] = "awaitAdsText"
  /\ AfterAds(r, Result("warn", "Could not analyze ads.txt"), timers[r])

Next ==
  \E r \in Reqs :
    \/ Receive(r)
    \/ LoopResponse(r)
    \/ LoopNetworkError(r)
    \/ LoopTimeout(r)
    \/ FinalResponse(r)
    \/ FinalNetworkError(r)
    \/ StaleTimerFires(r)
    \/ RetrievalSettled(r)
    \/ BodyArrives(r)
    \/ BodyFails(r)
    \/ RobotsResponse(r)
    \/ RobotsNetworkError(r)
    \/ RobotsTimeout(r)
    \/ RobotsText(r)
    \/ RobotsTextError(r)
    \/ AdsResponse(r)
    \/ AdsNetworkError(r)
    \/ AdsTimeout(r)
    \/ AdsText(r)
    \/ AdsTextError(r)

Spec == Init /\ [][Next]_vars

\* ------------------------------------------------- two requests in flight
\* Express calls the handler once per request; an invocation suspended at an
\* await leaves the event loop to the other one.  Both invocations run every
\* continuation of the handler; the environment is narrowed to two inputs,
\* two pages, direct answers and predicates that do not throw a TypeError.
PairInputs == { <<"x">>, <<"http", "://", "x">> }

PairDocs ==
  { [Profile("rich") EXCEPT !.links = @ \o <<"privacyHref">>],
    [Profile("bare") EXCEPT !.links = @ \o <<"privacyText">>] }

PairScope ==
  \A r \in Reqs :
    /\ doc[r] \in {NoDoc} \cup PairDocs
    /\ responseTime[r] \in {0, 2999}
    /\ Redirects(fw[r].answers) = 0
    /\ Len(retrievals[r]) <= 1
    /\ \A k \in 1..Len(checks[r]) : checks[r][k].message # CheckFailed("TypeError")

InitPair ==
  /\ pc = [r \in Reqs |-> "start"]
  /\ initialUrl \in [Reqs -> PairInputs]
  /\ targetUrl = [r \in Reqs |-> <<>>]
  /\ retrievals = [r \in Reqs |-> <<>>]
  /\ fw = [r \in Reqs |-> IdleFrame]
  /\ timers = [r \in Reqs |-> {}]
  /\ htmlResponse = [r \in Reqs |-> NoResponse]
  /\ responseTime = [r \in Reqs |-> 0]
  /\ finalResolvedUrl = [r \in Reqs |-> NoUrl]
  /\ doc = [r \in Reqs |-> NoDoc]
  /\ checks = [r \in Reqs |-> <<>>]
  /\ score = [r \in Reqs |-> 0]
  /\ sent = [r \in Reqs |-> <<>>]

NextPair ==
  \E r \in Reqs :
    \/ Receive(r) /\ PairScope'
    \/ LoopResponse(r) /\ PairScope'
    \/ LoopNetworkError(r) /\ PairScope'
    \/ LoopTimeout(r) /\ PairScope'
    \/ FinalResponse(r) /\ PairScope'
    \/ FinalNetworkError(r) /\ PairScope'
    \/ StaleTimerFires(r) /\ PairScope'
    \/ RetrievalSettled(r) /\ PairScope'
    \/ BodyArrives(r) /\ PairScope'
    \/ BodyFails(r) /\ PairScope'
    \/ RobotsResponse(r) /\ PairScope'
    \/ RobotsNetworkError(r) /\ PairScope'
    \/ RobotsTimeout(r) /\ PairScope'
    \/ RobotsText(r) /\ PairScope'
    \/ RobotsTextError(r) /\ PairScope'
    \/ AdsResponse(r) /\ PairScope'
    \/ AdsNetworkError(r) /\ PairScope'
    \/ AdsTimeout(r) /\ PairScope'
    \/ AdsText(r) /\ PairScope'
    \/ AdsTextError(r) /\ PairScope'

SpecPair == InitPair /\ [][NextPair]_vars

\* ------------------------------------------------- the scorer on its own
\* The run of the handler over the statuses of a check list: every weighted
\* entry is pushed and scored as lines 176-178, 293-295 and 505-507 do, the
\* manual entries are appended.
RECURSIVE Rescore(_, _, _)
Rescore(run, list, k) ==
  IF k > Len(list) THEN run
  ELSE LET c == list[k]
           result == Result(c.status, c.message)
           next == IF c.status = "manual" THEN [run EXCEPT !.checks = Append(@, c)]
                   ELSE IF k = RobotsIndex THEN PushRobots(run, result)
                   ELSE IF k = AdsIndex THEN PushAds(run, result)
                   ELSE Push(run, c.name, c.weight, result)
       IN Rescore(next, list, k + 1)

\* The checks whose status is graded: both HTTPS checks' neighbour of weight
\* 15, the two probes, the heaviest check and the two lightest ones.
GradedChecks == {2, RobotsIndex, 7, 14, 15, AdsIndex, 22}

Statuses == {"fail", "warn", "pass"}

\* The full check list with every weighted check at one status
BaseList(status) ==
  PushManual([k \in 1..Len(Registry) |->
                Entry(Registry[k].name, Registry[k].weight, Result(status, "graded"))], 1)

Better(status) ==
  CASE status = "fail" -> {"warn", "pass"}
    [] status = "warn" -> {"pass"}
    [] OTHER -> {}

Upgrade(list, k, status) == [list EXCEPT ![k].status = status]

InitScore ==
  /\ pc = [r \in Reqs |-> IF r = 1 THEN "scoring" ELSE "off"]
  /\ \E status \in Statuses :
       /\ checks = [r \in Reqs |-> IF r = 1 THEN BaseList(status) ELSE <<>>]
       /\ score = [r \in Reqs |-> IF r = 1 THEN Rescore(NoRun, BaseList(status), 1).score ELSE 0]
  /\ initialUrl = [r \in Reqs |-> <<>>]
  /\ targetUrl = [r \in Reqs |-> <<>>]
  /\ retrievals = [r \in Reqs |-> <<>>]
  /\ fw = [r \in Reqs |-> IdleFrame]
  /\ timers = [r \in Reqs |-> {}]
  /\ htmlResponse = [r \in Reqs |-> NoResponse]
  /\ responseTime = [r \in Reqs |-> 0]
  /\ finalResolvedUrl = [r \in Reqs |-> NoUrl]
  /\ doc = [r \in Reqs |-> NoDoc]
  /\ sent = [r \in Reqs |-> <<>>]

\* The same analysis with one graded check at a better status: the list is
\* scored again from its statuses.
Raise(r) ==
  /\ pc[r] = "scoring"
  /\ \E k \in GradedChecks : \E status \in Better(checks[r][k].status) :
       LET run == Rescore(NoRun, Upgrade(checks[r], k, status), 1)
       IN /\ checks' = [checks EXCEPT ![r] = run.checks]
          /\ score' = [score EXCEPT ![r] = run.score]
  /\ UNCHANGED <<pc, initialUrl, targetUrl, retrievals, fw, timers, htmlResponse,
                 responseTime, finalResolvedUrl, doc, sent>>

NextScore == \E r \in Reqs : Raise(r)

SpecScore == InitScore /\ [][NextScore]_vars

\* ------------------------------------------------------------- properties
Settled(r) == pc[r] = "fetchSettled" /\ fw[r].phase = "returned"

\* answers is n redirects followed by 200 answers only
RedirectsThenOk(answers, n) ==
  /\ Len(answers) > n
  /\ \A k \in 1..Len(answers) : answers[k] = (IF k <= n THEN "redirect" ELSE "ok")

\* C1: when the server answers a call of fetchWithRedirects with N <= 5
\* redirects and then 200, the call returns the response of the final URL
\* and has issued at most N + 1 requests.
C1_AtMostOneRequestPerAnswer ==
  \A r \in Reqs : \A n \in 0..maxRedirects :
    (Settled(r) /\ RedirectsThenOk(fw[r].answers, n))
      => /\ fw[r].requests <= n + 1
         /\ htmlResponse[r].url = fw[r].finalUrl

InRetrieval(r) == pc[r] \in {"start", "awaitLoopFetch", "awaitFinalFetch", "fetchSettled"}

\* C2: once the handler has left the retrieval block, a first retrieval
\* over https that threw or returned a non-success status has been followed
\* by exactly one retrieval of the same target over http.
C2_FallbackAfterEveryFailure ==
  \A r \in Reqs :
    (/\ ~InRetrieval(r)
     /\ retrievals[r] # <<>>
     /\ retrievals[r][1].scheme = "https"
     /\ retrievals[r][1].result \in {"threw", "notok"})
      => /\ Len(retrievals[r]) = 2
         /\ retrievals[r][2].scheme = "http"

\* C3: every pending attempt of fetchWithRedirects, in the loop or the final
\* one, has its own armed timer.
C3_EveryAttemptHasATimer ==
  \A r \in Reqs :
    pc[r] \in {"awaitLoopFetch", "awaitFinalFetch"}
      => \E t \in timers[r] : t.kind = "page" /\ t.call = Len(retrievals[r])

\* C10: when the response of a request has been sent, none of its timers is
\* still armed.
C10_NoTimerSurvivesTheResponse ==
  \A r \in Reqs : pc[r] = "done" => timers[r] = {}

Success(r) == pc[r] = "done" /\ Len(sent[r]) = 1 /\ sent[r][1].status = 200

Failure(r) == pc[r] = "done" /\ Len(sent[r]) = 1 /\ sent[r][1].status # 200

\* The names of the 22 weighted checks and the 3 manual entries, as declared
ExpectedNames ==
  [k \in 1..(Len(Registry) + Len(ManualNames)) |->
     IF k <= Len(Registry) THEN Registry[k].name ELSE ManualNames[k - Len(Registry)]]

NamesOf(list) == [k \in 1..Len(list) |-> list[k].name]

IsThrown(c) == c.message \in {CheckFailed("TypeError"), CheckFailed("Invalid URL")}

Contribution(c) ==
  IF c.status = "pass" THEN 2 * c.weight
  ELSE IF c.status = "warn" THEN c.weight ELSE 0

\* The stateless sum over a check list, in half points
RECURSIVE HalfPoints(_)
HalfPoints(list) ==
  IF list = <<>> THEN 0 ELSE Contribution(Head(list)) + HalfPoints(Tail(list))

ParsedDocument(r) == doc[r] # NoDoc

\* C4: the check list is always a prefix of the declared names, so no check
\* is recorded twice or out of order; a run that got past parsing ends with
\* all 25 entries; a predicate that threw is recorded as a fail and the
\* score holds only the shares of the predicates that returned.
C4_EveryCheckExactlyOnce ==
  \A r \in Reqs :
    /\ Len(checks[r]) <= Len(ExpectedNames)
    /\ NamesOf(checks[r]) = SubSeq(ExpectedNames, 1, Len(checks[r]))
    /\ pc[r] \in {"awaitRobotsFetch", "awaitRobotsText"} => Len(checks[r]) = RobotsIndex - 1
    /\ pc[r] \in {"awaitAdsFetch", "awaitAdsText"} => Len(checks[r]) = AdsIndex - 1
    /\ (pc[r] = "done" /\ ParsedDocument(r))
         => /\ Len(checks[r]) = Len(ExpectedNames)
            /\ Success(r)
            /\ sent[r][1].body.checks = checks[r]
    /\ \A k \in 1..Len(checks[r]) : IsThrown(checks[r][k]) => checks[r][k].status = "fail"
    /\ score[r] = HalfPoints(SelectSeq(checks[r], LAMBDA c : ~IsThrown(c)))

C4_Witness ==
  \E r \in Reqs :
    /\ Success(r)
    /\ \E k \in 1..(AdsIndex - 1) : checks[r][k].message = CheckFailed("TypeError")
    /\ checks[r][RobotsIndex].message = "Could not analyze robots.txt"
    /\ checks[r][AdsIndex].message = "Could not analyze ads.txt"

TotalRegistryWeight == SumWeights(Registry)

\* C5: the score accumulated while the checks ran is the stateless sum over
\* the check list; when the percentage is computed, totalPossibleWeight is
\* the sum of the weights of the 22 weighted checks and the raw score does
\* not exceed it.
C5_ScoreIsTheStatelessSum ==
  \A r \in Reqs :
    /\ score[r] = HalfPoints(checks[r])
    /\ Success(r) =>
         LET report == ScoreReport(checks[r], score[r])
         IN /\ report.totalPossibleWeight = TotalRegistryWeight
            /\ report.totalPossibleWeight =
                 SumWeights(SelectSeq(checks[r], LAMBDA c : c.status # "manual"))
            /\ report.rawScore <= 2 * report.totalPossibleWeight

C5_Witness ==
  \E r \in Reqs :
    /\ Success(r)
    /\ checks[r][RobotsIndex].status = "warn"
    /\ checks[r][AdsIndex].status = "warn"
    /\ \E k \in 1..Len(checks[r]) : checks[r][k].status = "warn" /\ checks[r][k].weight % 2 = 1
    /\ \E k \in 1..Len(checks[r]) : IsThrown(checks[r][k])
    /\ score[r] % 2 = 1

Count(list, Test(_)) == Cardinality({k \in 1..Len(list) : Test(list[k])})

CriticalNote(n) == [note |-> "Critical issues detected", amount |-> 15 * n]
VolumeNote(n) == [note |-> "Multiple failures", amount |-> 3 * (n - 5)]

\* C6: the reported score is the percentage less the critical penalty, less
\* the volume penalty, each floored at 0, then capped at 65 when a critical
\* failure exists; it lies in 0..100; the penalties list holds the critical
\* note, then the volume note, each exactly when its penalty applied.
C6_PenaltiesThenCap ==
  \A r \in Reqs :
    Success(r) =>
      LET body == sent[r][1].body
          critical == Count(body.checks, IsCritical)
          failed == Count(body.checks, IsFail)
          percent == (100 * HalfPoints(body.checks) + TotalRegistryWeight)
                       \div (2 * TotalRegistryWeight)
          step4 == IF critical > 0 THEN Max(0, percent - 15 * critical) ELSE percent
          step5 == IF failed > 5 THEN Max(0, step4 - 3 * (failed - 5)) ELSE step4
          step6 == IF critical > 0 THEN Min(step5, 65) ELSE step5
      IN /\ body.score = step6
         /\ body.score \in 0..100
         /\ critical > 0 => body.score <= 65
         /\ body.penalties =
              (IF critical > 0 THEN <<CriticalNote(critical)>> ELSE <<>>)
              \o (IF failed > 5 THEN <<VolumeNote(failed)>> ELSE <<>>)

C6_Witness ==
  \E r \in Reqs :
    /\ Success(r)
    /\ Len(sent[r][1].body.penalties) = 2
    /\ sent[r][1].body.score > 0
    /\ sent[r][1].body.score < 65

PrivacyKeywords == {"privacy", "policy", "privacy-policy"}

\* An insecure page (the final URL is http) without a privacy link and with
\* 200 words of content has been analysed.
InsecureThinPage(r) ==
  /\ Success(r)
  /\ finalResolvedUrl[r].protocol = "http"
  /\ findLink(doc[r].links, PrivacyKeywords) = 0
  /\ doc[r].words = 200

CriticalNames(list) == {list[k].name : k \in {j \in 1..Len(list) : IsCritical(list[j])}}

\* C7 as stated: for such a page exactly 3 critical failures are counted,
\* the critical penalty is 45 and the score is capped at 65.
C7_ThreeCriticalFailures ==
  \A r \in Reqs :
    InsecureThinPage(r) =>
      /\ Count(checks[r], IsCritical) = 3
      /\ sent[r][1].body.penalties[1] = CriticalNote(3)
      /\ sent[r][1].body.score <= 65

\* C7 amended: for such a page exactly 5 critical failures are counted (both
\* HTTPS checks, Privacy Policy Page, Content Volume and Main Content
\* Volume), the critical penalty is 75 and the score is at most 65.
C7_FiveCriticalFailures ==
  \A r \in Reqs :
    InsecureThinPage(r) =>
      /\ CriticalNames(checks[r]) =
           { "Secure Connection (HTTPS/SSL)", "HTTPS Redirect Check", "Privacy Policy Page",
             "Content Volume", "Main Content Volume" }
      /\ Count(checks[r], IsCritical) = 5
      /\ sent[r][1].body.penalties[1] = CriticalNote(5)
      /\ sent[r][1].body.score <= 65

C7_Witness ==
  \E r \in Reqs :
    /\ InsecureThinPage(r)
    /\ checks[r][RobotsIndex].status = "pass"
    /\ sent[r][1].body.penalties[1].amount = 75

\* C8: a robots.txt check with status fail is a critical failure: it is
\* counted among the critical checks, 15 is subtracted for it and the score
\* is capped at 65.
C8_RobotsFailIsCritical ==
  \A r \in Reqs :
    (Success(r) /\ checks[r][RobotsIndex].status = "fail")
      => /\ IsCritical(checks[r][RobotsIndex])
         /\ sent[r][1].body.penalties # <<>>
         /\ sent[r][1].body.penalties[1].note = "Critical issues detected"
         /\ sent[r][1].body.score <= 65

ErrorStatus(error) ==
  CASE error \in {"URL is required", "Invalid URL format"} -> 400
    [] error = "Failed to access website" -> 500
    [] error = "Not an HTML webpage" -> 400
    [] error = "Empty or minimal content" -> 400
    [] error = "Failed to parse website HTML" -> 500
    [] error = "Analysis failed" -> 500

\* The handler's normalisation of the input (trim, then https:// in front of
\* an input without scheme) gives no absolute URL.
InvalidInput(r) ==
  LET t == Trim(initialUrl[r])
  IN ParseUrl(IF MatchesScheme(t) THEN t ELSE HttpsPrefix \o t) = NoUrl

Local(r) ==
  <<pc[r], initialUrl[r], targetUrl[r], retrievals[r], fw[r], timers[r], htmlResponse[r],
    responseTime[r], finalResolvedUrl[r], doc[r], checks[r], score[r], sent[r]>>

\* The entry runCheck records for registry entry k from the request's own
\* document, input, final URL and response time
OwnEntry(r, k) ==
  runCheck(NoRun, Registry[k].name, Registry[k].weight,
           Predicate(Registry[k].name, doc[r], initialUrl[r], finalResolvedUrl[r],
                     responseTime[r])).checks[1]

\* The check list, the score and the response of request r are those its own
\* input, page and probe answers give.
OwnAnalysis(r) ==
  /\ doc[r] = NoDoc => checks[r] = <<>>
  /\ \A k \in 1..Len(checks[r]) :
       (k <= Len(Registry) /\ k \notin {RobotsIndex, AdsIndex}
          /\ checks[r][k].message # CheckFailed("TypeError"))
         => checks[r][k] = OwnEntry(r, k)
  /\ score[r] = HalfPoints(checks[r])
  /\ finalResolvedUrl[r] # NoUrl => finalResolvedUrl[r].host = ParseUrl(targetUrl[r]).host
  /\ pc[r] = "done" => Len(sent[r]) = 1
  /\ (pc[r] = "done" /\ ParsedDocument(r)) =>
       LET report == ScoreReport(checks[r], HalfPoints(checks[r]))
       IN /\ Len(checks[r]) = Len(ExpectedNames)
          /\ sent[r][1] = [status |-> 200,
                           body |-> [score |-> report.finalScore, checks |-> checks[r],
                                     finalResolvedUrl |-> finalResolvedUrl[r],
                                     penalties |-> report.penalties]]

\* A step of one invocation leaves everything the other one holds as it was.
OneInvocationSteps ==
  \A r \in Reqs : \A q \in Reqs \ {r} : Local(r)' # Local(r) => Local(q)' = Local(q)

\* C11: with two requests whose handlers interleave at their awaits in any
\* order, every step changes the state of one request only, and the check
\* list, score, final resolved URL and penalties each request answers with
\* are those its own input, page and probe answers give when it runs alone.
C11_RequestsAreIsolated ==
  /\ [](\A r \in Reqs : OwnAnalysis(r))
  /\ [][OneInvocationSteps]_vars

C11_Witness ==
  /\ Success(1) /\ Success(2)
  /\ initialUrl[1] # initialUrl[2]
  /\ doc[1] # doc[2]
  /\ finalResolvedUrl[1] # finalResolvedUrl[2]
  /\ sent[1][1].body.score # sent[2][1].body.score
  /\ sent[1][1].body.penalties # sent[2][1].body.penalties

\* Math.round((score / totalPossibleWeight) * 100) of a scored check list,
\* before the penalty and cap steps
PercentOf(run) == ScoreReport(run.checks, run.score).percent

Scored(list) == Rescore(NoRun, list, 1)

\* C12: for every check list and every weighted check in it, moving only
\* that check's status up along fail -> warn -> pass never decreases the
\* percentage round(100 * rawScore / totalPossibleWeight) computed before
\* the penalty and cap steps.
C12_PercentIsMonotone ==
  \A r \in Reqs :
    pc[r] = "scoring" =>
      LET now == [checks |-> checks[r], score |-> score[r]]
      IN /\ Scored(checks[r]) = now
         /\ \A k \in 1..Len(checks[r]) :
              checks[r][k].weight > 0 =>
                \A status \in Better(checks[r][k].status) :
                  PercentOf(Scored(Upgrade(checks[r], k, status))) >= PercentOf(now)

\* A fail raised to warn lifts the percentage, and a warn raised to pass is
\* absorbed by the rounding.
C12_Witness ==
  \E r \in Reqs :
    /\ pc[r] = "scoring"
    /\ \E k \in 1..Len(checks[r]) :
         /\ checks[r][k].status = "fail" /\ checks[r][k].weight > 0
         /\ PercentOf(Scored(Upgrade(checks[r], k, "warn"))) > PercentOf(Scored(checks[r]))
    /\ \E k \in 1..Len(checks[r]) :
         /\ checks[r][k].status = "warn" /\ checks[r][k].weight > 0
         /\ PercentOf(Scored(Upgrade(checks[r], k, "pass"))) = PercentOf(Scored(checks[r]))

PrivacyIndex == 7

\* The document has a link whose href or whose text holds a privacy keyword.
HasPrivacyLink(d) ==
  \E k \in 1..Len(d.links) :
    (LinkHref(d.links[k]) \cup LinkText(d.links[k])) \cap PrivacyKeywords # {}

\* C13: the Privacy Policy Page check passes if and only if the document
\* has at least one link whose href or whose text matches a privacy keyword
\* (a link that matches by its text only included); otherwise it fails.
C13_PrivacyPassIffLinkMatches ==
  \A r \in Reqs :
    (Len(checks[r]) >= PrivacyIndex /\ ~IsThrown(checks[r][PrivacyIndex])) =>
      /\ checks[r][PrivacyIndex].name = "Privacy Policy Page"
      /\ checks[r][PrivacyIndex].status \in {"pass", "fail"}
      /\ checks[r][PrivacyIndex].status = "pass" <=> HasPrivacyLink(doc[r])

RedirectIndex == 2

\* C14: for every accepted input the HTTPS Redirect Check passes when the
\* final resolved URL is https (whether the input had an http scheme, an
\* https scheme or none, began with the letters http or with whitespace)
\* and fails only when the final resolved URL is not https.
C14_RedirectCheckFollowsFinalUrl ==
  \A r \in Reqs :
    Len(checks[r]) >= RedirectIndex =>
      /\ checks[r][RedirectIndex].name = "HTTPS Redirect Check"
      /\ checks[r][RedirectIndex].status \in {"pass", "fail"}
      /\ checks[r][RedirectIndex].status = "pass" <=> finalResolvedUrl[r].protocol = "https"

\* The invocation of the handler is over: it returned or it threw.
Terminated(r) == pc[r] \in {"done", "threw"}

\* C15: a handler that has terminated has sent exactly one response, never
\* none and never two; and once the response is sent the handler is over:
\* none of its continuations is pending, so no check is evaluated and no
\* request is issued after it.
C15_ExactlyOneResponse ==
  \A r \in Reqs :
    /\ Len(sent[r]) <= 1
    /\ Terminated(r) => Len(sent[r]) = 1
    /\ sent[r] # <<>> => pc[r] = "done"

=============================================================================
